---- MODULE Spec2Model ----
(***************************************************************************)
(* The article-sourcing pipeline of the useWikiArticles hook               *)
(* (frontend/src/hooks/useWikiArticles.ts) together with its consumer,     *)
(* the App component (IntersectionObserver driven infinite scroll).        *)
(*                                                                         *)
(* Execution model: the JavaScript event loop.  Every action is one task   *)
(* (a network response, an observer callback, a React render with its      *)
(* effects) or one continuation of an async function after an await.  A    *)
(* continuation whose awaited promises are all settled already is a        *)
(* microtask: it runs before any further task (MicrotaskPending).          *)
(*                                                                         *)
(* React state (articles, buffer, loading, selectedCategories) is kept     *)
(* twice: the current value of the state cell, and the value the last      *)
(* committed render saw (rendered).  Callbacks created by useCallback read *)
(* the values of the render that created them, not the state cells.        *)
(***************************************************************************)
EXTENDS Integers, Sequences, FiniteSets, TLC

(***************************************************************************)
(* Bounds of the model.  BATCH_SIZE (40), SUBCAT_SAMPLE_SIZE (5) and the   *)
(* listing page size cmlimit (500) are the program's constants scaled down *)
(* to the size of the remote data below.                                   *)
(***************************************************************************)
BATCH_SIZE == 2

SUBCAT_SAMPLE_SIZE == 1

CmLimit == 1

\* Production cycles the consumer lets run side by side before it stops scrolling.
MaxInFlight == 2

\* The consumer stops scrolling once this many records are displayed.
MaxArticles == 3

\* Remote calls that fail (network failure or API error payload) in one run.
MaxFailures == 1

\* The longest array handed to shuffleArray on its own; its elements are
\* 1..MaxShuffleLen, so that arrays with and without repeated elements occur.
MaxShuffleLen == 3

(***************************************************************************)
(* The remote encyclopedia: a fixed category tree.                         *)
(*   A: pages 1 2 (two listing pages), subcategory S                       *)
(*   S: pages 2 3 (2 is shared with A; page 3 has no thumbnail)            *)
(*   E: an empty category                                                  *)
(*   W: no pages, subcategories S and E                                    *)
(***************************************************************************)
Categories == {"A", "S", "E", "W"}

MemberTypes == {"page", "subcat"}

Selections == {<<"A">>, <<"E">>, <<"E", "A">>}

RemotePages(cat) ==
  CASE cat = "A" -> <<1, 2>>
    [] cat = "S" -> <<2, 3>>
    [] OTHER -> <<>>

RemoteSubcats(cat) ==
  CASE cat = "A" -> <<"S">>
    [] cat = "W" -> <<"S", "E">>
    [] OTHER -> <<>>

RemoteMembers(cat, memberType) ==
  IF memberType = "page" THEN RemotePages(cat) ELSE RemoteSubcats(cat)

\* What the detail endpoint knows of a page: which fields it delivers.
PageInfo(id) ==
  [pageid |-> TRUE, title |-> TRUE, extract |-> TRUE, canonicalurl |-> TRUE,
   thumbnail |-> [present |-> id # 3, source |-> id # 3]]

Min(a, b) == IF a < b THEN a ELSE b

Range(s) == {s[i] : i \in 1..Len(s)}

Prefix(s, n) == SubSeq(s, 1, Min(n, Len(s)))

\* One response of list=categorymembers: cmlimit members from the offset the
\* continuation token stands for, and the next token (0: no continue field).
ListingPage(cat, memberType, cmcontinue) ==
  LET all == RemoteMembers(cat, memberType)
      last == Min(cmcontinue + CmLimit, Len(all))
  IN [members |-> SubSeq(all, cmcontinue + 1, last),
      continue |-> IF last < Len(all) THEN last ELSE 0]

(***************************************************************************)
(* shuffleArray: Fisher-Yates, in place, i from length-1 down to 1 (0      *)
(* based), j = floor(random * (i+1)).  draws[i] is the j drawn at index i  *)
(* (1-based here: position i+1 is swapped with position draws[i]+1).       *)
(***************************************************************************)
\* Mutant: the swap writes one of the two positions only.
Swap_Overwrite(array, a, b) == [array EXCEPT ![a] = array[b]]

Swap(array, a, b) == [array EXCEPT ![a] = array[b], ![b] = array[a]]

RECURSIVE ShuffleFrom(_, _, _)
ShuffleFrom(array, draws, i) ==
  IF i < 1 THEN array
  ELSE ShuffleFrom(Swap(array, i + 1, draws[i] + 1), draws, i - 1)

shuffleArray(array, draws) == ShuffleFrom(array, draws, Len(array) - 1)

\* Every sequence of draws Math.random can produce for an array of length n.
Draws(n) == IF n < 2 THEN {<<>>} ELSE [1..(n - 1) -> 0..(n - 1)]

DrawsOk(n, draws) == \A i \in 1..(n - 1) : draws[i] <= i

Shuffles(array) ==
  {shuffleArray(array, d) : d \in {x \in Draws(Len(array)) : DrawsOk(Len(array), x)}}

\* [...new Set(seq)]: first occurrences, in order.
RECURSIVE Unique(_)
Unique(seq) ==
  IF seq = <<>> THEN <<>>
  ELSE LET init == Unique(SubSeq(seq, 1, Len(seq) - 1))
           x == seq[Len(seq)]
       IN IF x \in Range(init) THEN init ELSE Append(init, x)

\* Object.values of an object with integer keys: ascending key order.
RECURSIVE Ascending(_)
Ascending(S) ==
  IF S = {} THEN <<>>
  ELSE LET m == CHOOSE x \in S : \A y \in S : x <= y
       IN <<m>> \o Ascending(S \ {m})

(***************************************************************************)
(* Cache values: undefined (never attempted), null (failed), or a list.    *)
(***************************************************************************)
Undefined == [tag |-> "undefined", val |-> <<>>]

Null == [tag |-> "null", val |-> <<>>]

List(s) == [tag |-> "list", val |-> s]

IsArray(v) == v.tag = "list"

CacheKeys == Categories \X MemberTypes

VARIABLES
  selectedCategories, \* App: useState<string[]>([]), the hook's targetCategories
  articles,           \* useState: the displayed list (records, by page id)
  buffer,             \* useState: the pre-fetched batch
  loading,            \* useState: the in-flight flag
  rendered,           \* the state values seen by the last committed render
  categoryPageIds,    \* useRef: cache of page ids per category
  categorySubcats,    \* useRef: cache of subcategory names per category
  shownPageIds,       \* useRef: the shown set
  fetchingStatus,     \* useRef: status per `${categoryName}-${memberType}`
  cycles,             \* the invocations of fetchAndProcessArticles in flight
  calls,              \* the invocations of fetchCategoryMembers awaiting a response
  failures,           \* remote calls that have failed so far
  resets,             \* TRUE once the shown set has been cleared (exhaustion)
  emptyEnded,         \* a cycle ended on an empty pool or batch, no consumer action since
  details,            \* one invocation of fetchArticleDetails, taken on its own
  discarded,          \* per key: the allMembers its last failed call had accumulated
  shuffled            \* one invocation of shuffleArray, taken on its own

vars == <<selectedCategories, articles, buffer, loading, rendered, categoryPageIds,
          categorySubcats, shownPageIds, fetchingStatus, cycles, calls, failures,
          resets, emptyEnded, details, discarded, shuffled>>

Slots == 1..MaxInFlight

\* loading and targetCategories are the values the invocation's closure captured.
NoCycle ==
  [pc |-> "none", forBuffer |-> FALSE, loading |-> FALSE, targetCategories |-> <<>>,
   directPageIds |-> <<>>, subcatSample |-> <<>>, idsToFetch |-> <<>>,
   newArticles |-> <<>>]

NoCall == [active |-> FALSE, allMembers |-> <<>>, cmcontinue |-> 0]

\* pages: the detail response; result: the records returned (by page id);
\* requests: the remote calls made; rejected: an image preload failed.
NoDetails ==
  [pc |-> "idle", pageIds |-> <<>>, pages |-> <<>>, result |-> <<>>, requests |-> 0,
   failed |-> FALSE, rejected |-> FALSE]

\* array: the argument; draws: the values of j drawn; result: the array returned.
NoShuffle == [pc |-> "idle", array |-> <<>>, draws |-> <<>>, result |-> <<>>]

Snapshot ==
  [targetCategories |-> selectedCategories, articlesLen |-> Len(articles),
   buffer |-> buffer, loading |-> loading]

Init ==
  /\ selectedCategories = <<>>
  /\ articles = <<>>
  /\ buffer = <<>>
  /\ loading = FALSE
  /\ rendered = [targetCategories |-> <<>>, articlesLen |-> 0, buffer |-> <<>>,
                 loading |-> FALSE]
  /\ categoryPageIds = [c \in Categories |-> Undefined]
  /\ categorySubcats = [c \in Categories |-> Undefined]
  /\ shownPageIds = {}
  /\ fetchingStatus = [k \in CacheKeys |-> "none"]
  /\ cycles = [s \in Slots |-> NoCycle]
  /\ calls = [s \in Slots |-> [k \in CacheKeys |-> NoCall]]
  /\ failures = 0
  /\ resets = FALSE
  /\ emptyEnded = FALSE
  /\ details = NoDetails
  /\ discarded = [k \in CacheKeys |-> <<>>]
  /\ shuffled = NoShuffle

InFlight == {s \in Slots : cycles[s].pc # "none"}

Awaiting(s) == {k \in CacheKeys : calls[s][k].active}

\* A cycle whose Promise.all has nothing left to wait for continues in a microtask.
Ready(s) == cycles[s].pc \in {"roots", "subs"} /\ Awaiting(s) = {}

MicrotaskPending == \E s \in Slots : Ready(s)

CacheOf(cat, memberType) ==
  IF memberType = "page" THEN categoryPageIds[cat] ELSE categorySubcats[cat]

\* Mutant: the cache check is missing, a resolved key is fetched again.
fetchCategoryMembers_NoCacheCheck(r, categoryName, memberType) ==
  LET cacheKey == <<categoryName, memberType>>
  IN IF r.st[cacheKey] = "pending"
       THEN r
     ELSE [st |-> [r.st EXCEPT ![cacheKey] = "pending"],
           cs |-> [r.cs EXCEPT ![cacheKey] =
                     [active |-> TRUE, allMembers |-> <<>>, cmcontinue |-> 0]]]

\* Mutant: the pending check is missing, a pending key is fetched a second time.
fetchCategoryMembers_NoPendingCheck(r, categoryName, memberType) ==
  LET cacheKey == <<categoryName, memberType>>
  IN IF CacheOf(categoryName, memberType).tag # "undefined" /\ r.st[cacheKey] # "error"
       THEN r
     ELSE [st |-> [r.st EXCEPT ![cacheKey] = "pending"],
           cs |-> [r.cs EXCEPT ![cacheKey] =
                     [active |-> TRUE, allMembers |-> <<>>, cmcontinue |-> 0]]]

\* Mutant: a cached null counts as a hit, a failed key is never fetched again.
fetchCategoryMembers_NoRetry(r, categoryName, memberType) ==
  LET cacheKey == <<categoryName, memberType>>
  IN IF CacheOf(categoryName, memberType).tag # "undefined"
       THEN r
     ELSE IF r.st[cacheKey] = "pending"
       THEN r
     ELSE [st |-> [r.st EXCEPT ![cacheKey] = "pending"],
           cs |-> [r.cs EXCEPT ![cacheKey] =
                     [active |-> TRUE, allMembers |-> <<>>, cmcontinue |-> 0]]]

(***************************************************************************)
(* fetchCategoryMembers up to its first await: the cache check, the        *)
(* pending check, marking pending and sending the first listing request.   *)
(* r = [st, cs]: the status map and the calls of the calling cycle.        *)
(***************************************************************************)
fetchCategoryMembers(r, categoryName, memberType) ==
  LET cacheKey == <<categoryName, memberType>>
  IN IF CacheOf(categoryName, memberType).tag # "undefined" /\ r.st[cacheKey] # "error"
       THEN r
     ELSE IF r.st[cacheKey] = "pending"
       THEN r
     ELSE [st |-> [r.st EXCEPT ![cacheKey] = "pending"],
           cs |-> [r.cs EXCEPT ![cacheKey] =
                     [active |-> TRUE, allMembers |-> <<>>, cmcontinue |-> 0]]]

RECURSIVE FetchAll(_, _)
FetchAll(r, requests) ==
  IF requests = <<>> THEN r
  ELSE FetchAll(fetchCategoryMembers(r, Head(requests)[1], Head(requests)[2]),
                Tail(requests))

\* targetCategories.flatMap(catName => [page, subcat])
RECURSIVE InitialFetches(_)
InitialFetches(cats) ==
  IF cats = <<>> THEN <<>>
  ELSE <<<<Head(cats), "page">>, <<Head(cats), "subcat">>>> \o InitialFetches(Tail(cats))

SubcatFetches(sample) == [i \in 1..Len(sample) |-> <<sample[i], "page">>]

(***************************************************************************)
(* fetchAndProcessArticles(forBuffer) up to its first await, called from a *)
(* closure that captured closureLoading and targetCategories; slot s holds *)
(* the new invocation.                                                     *)
(***************************************************************************)
\* Mutant: the guard reads the loading state cell instead of the closure's value.
Guard_StateCell(closureLoading, targetCategories) ==
  ~(loading \/ Len(targetCategories) = 0)

Guard(closureLoading, targetCategories) ==
  ~(closureLoading \/ Len(targetCategories) = 0)

Launch(s, forBuffer, closureLoading, targetCategories) ==
  LET r == FetchAll([st |-> fetchingStatus, cs |-> [k \in CacheKeys |-> NoCall]],
                    InitialFetches(targetCategories))
  IN /\ fetchingStatus' = r.st
     /\ calls' = [calls EXCEPT ![s] = r.cs]
     /\ cycles' = [cycles EXCEPT ![s] =
                      [NoCycle EXCEPT !.pc = "roots", !.forBuffer = forBuffer,
                                      !.loading = closureLoading,
                                      !.targetCategories = targetCategories]]

fetchAndProcessArticles(s, forBuffer, closureLoading, targetCategories) ==
  IF Guard(closureLoading, targetCategories)
    THEN loading' = TRUE /\ Launch(s, forBuffer, closureLoading, targetCategories)
    ELSE UNCHANGED <<loading, fetchingStatus, calls, cycles>>

FreeSlot(s) == s \notin InFlight /\ \A t \in Slots : t < s => t \in InFlight

(***************************************************************************)
(* App: CategorySelector.handleConfirm -> setSelectedCategories.  The      *)
(* selector is shown only while no category is selected.                   *)
(***************************************************************************)
SelectCategories ==
  /\ ~MicrotaskPending
  /\ selectedCategories = <<>>
  /\ rendered.targetCategories = <<>>
  /\ \E chosenCategories \in Selections :
       /\ Len(chosenCategories) > 0
       /\ selectedCategories' = chosenCategories
  /\ UNCHANGED <<details, shuffled, discarded, articles, buffer, loading, rendered, categoryPageIds,
                 categorySubcats, shownPageIds, fetchingStatus, cycles, calls, failures,
                 resets, emptyEnded>>

(***************************************************************************)
(* React commits the pending state updates and runs the initial-fetch      *)
(* effect when one of its dependencies changed.                            *)
(***************************************************************************)
\* Mutant: targetCategories is missing from the dependency array.
EffectDeps_NoCategories(r) == <<r.articlesLen, Len(r.buffer), r.loading>>

EffectDeps(r) == <<r.targetCategories, r.articlesLen, Len(r.buffer), r.loading>>

InitialFetchEffect(r) ==
  r.targetCategories # <<>> /\ r.articlesLen = 0 /\ Len(r.buffer) = 0 /\ ~r.loading

Render ==
  /\ ~MicrotaskPending
  /\ rendered # Snapshot
  /\ rendered' = Snapshot
  /\ IF EffectDeps(Snapshot) # EffectDeps(rendered) /\ InitialFetchEffect(Snapshot)
       THEN \E s \in Slots :
              /\ FreeSlot(s)
              /\ fetchAndProcessArticles(s, FALSE, Snapshot.loading,
                                         Snapshot.targetCategories)
       ELSE UNCHANGED <<loading, fetchingStatus, calls, cycles>>
  /\ UNCHANGED <<details, shuffled, discarded, selectedCategories, articles, buffer, categoryPageIds, categorySubcats,
                 shownPageIds, failures, resets, emptyEnded>>

(***************************************************************************)
(* App.handleObserver -> getMoreArticles (advance).  The observer callback *)
(* is the one of the last render; the browser delivers it after React has  *)
(* committed the updates scheduled before it.                              *)
(***************************************************************************)
\* Mutant: the buffered records are put in front of the displayed list.
Advanced_Prepend(prev, buf) == buf \o prev

\* setArticles((prev) => [...prev, ...buffer])
Advanced(prev, buf) == prev \o buf

\* Mutant: the swap is not followed by a refill cycle.
getMoreArticles_NoRefill(s) ==
  IF Len(rendered.buffer) > 0
    THEN /\ articles' = Advanced(articles, rendered.buffer)
         /\ buffer' = <<>>
         /\ UNCHANGED <<loading, fetchingStatus, calls, cycles>>
    ELSE /\ UNCHANGED <<articles, buffer>>
         /\ fetchAndProcessArticles(s, FALSE, rendered.loading, rendered.targetCategories)

getMoreArticles(s) ==
  IF Len(rendered.buffer) > 0
    THEN /\ articles' = Advanced(articles, rendered.buffer)
         /\ buffer' = <<>>
         /\ fetchAndProcessArticles(s, TRUE, rendered.loading, rendered.targetCategories)
    ELSE /\ UNCHANGED <<articles, buffer>>
         /\ fetchAndProcessArticles(s, FALSE, rendered.loading, rendered.targetCategories)

handleObserver ==
  /\ ~MicrotaskPending
  /\ rendered = Snapshot
  /\ Len(articles) < MaxArticles
  /\ ~rendered.loading /\ rendered.articlesLen > 0
  /\ \E s \in Slots : FreeSlot(s) /\ getMoreArticles(s)
  /\ emptyEnded' = FALSE
  /\ UNCHANGED <<details, shuffled, discarded, selectedCategories, rendered, categoryPageIds, categorySubcats,
                 shownPageIds, failures, resets>>

(***************************************************************************)
(* fetchCategoryMembers after the await of one listing request.            *)
(***************************************************************************)
\* finally: a status still pending when the call returns becomes error.
Finally(status) == IF status = "pending" THEN "error" ELSE status

StoreCache(categoryName, memberType, value) ==
  /\ categoryPageIds' = IF memberType = "page"
                          THEN [categoryPageIds EXCEPT ![categoryName] = value]
                          ELSE categoryPageIds
  /\ categorySubcats' = IF memberType = "page"
                          THEN categorySubcats
                          ELSE [categorySubcats EXCEPT ![categoryName] = value]

\* Mutant: the continuation token is ignored, the first page is cached as the list.
ListingResponse_NoContinue(s, cacheKey) ==
  LET call == calls[s][cacheKey]
      data == ListingPage(cacheKey[1], cacheKey[2], call.cmcontinue)
      allMembers == call.allMembers \o data.members
  IN /\ ~MicrotaskPending
     /\ call.active
     /\ StoreCache(cacheKey[1], cacheKey[2], List(allMembers))
     /\ fetchingStatus' = [fetchingStatus EXCEPT ![cacheKey] = "done"]
     /\ calls' = [calls EXCEPT ![s][cacheKey] = NoCall]
     /\ discarded' = [discarded EXCEPT ![cacheKey] = <<>>]
     /\ UNCHANGED <<details, shuffled, selectedCategories, articles, buffer, loading, rendered,
                    shownPageIds, cycles, failures, resets, emptyEnded>>

ListingResponse(s, cacheKey) ==
  LET call == calls[s][cacheKey]
      data == ListingPage(cacheKey[1], cacheKey[2], call.cmcontinue)
      allMembers == call.allMembers \o data.members
  IN /\ ~MicrotaskPending
     /\ call.active
     /\ IF data.continue # 0
          THEN /\ calls' = [calls EXCEPT ![s][cacheKey] =
                              [active |-> TRUE, allMembers |-> allMembers,
                               cmcontinue |-> data.continue]]
               /\ UNCHANGED <<categoryPageIds, categorySubcats, fetchingStatus, discarded>>
          ELSE /\ StoreCache(cacheKey[1], cacheKey[2], List(allMembers))
               /\ fetchingStatus' = [fetchingStatus EXCEPT ![cacheKey] = Finally("done")]
               /\ calls' = [calls EXCEPT ![s][cacheKey] = NoCall]
               /\ discarded' = [discarded EXCEPT ![cacheKey] = <<>>]
     /\ UNCHANGED <<details, shuffled, selectedCategories, articles, buffer, loading, rendered,
                    shownPageIds, cycles, failures, resets, emptyEnded>>

\* Mutant: the failure is thrown on to the cycle, which ends in its own catch.
ListingError_Abort(s, cacheKey) ==
  /\ ~MicrotaskPending
  /\ calls[s][cacheKey].active
  /\ failures < MaxFailures
  /\ failures' = failures + 1
  /\ discarded' = [discarded EXCEPT ![cacheKey] = calls[s][cacheKey].allMembers]
  /\ fetchingStatus' = [fetchingStatus EXCEPT ![cacheKey] = "error"]
  /\ StoreCache(cacheKey[1], cacheKey[2], Null)
  /\ calls' = [calls EXCEPT ![s][cacheKey] = NoCall]
  /\ cycles' = [cycles EXCEPT ![s] = NoCycle]
  /\ loading' = FALSE
  /\ UNCHANGED <<details, shuffled, selectedCategories, articles, buffer, rendered, shownPageIds, resets,
                 emptyEnded>>

\* Mutant: the failure path returns without giving the key a terminal status.
ListingError_StaysPending(s, cacheKey) ==
  /\ ~MicrotaskPending
  /\ calls[s][cacheKey].active
  /\ failures < MaxFailures
  /\ failures' = failures + 1
  /\ discarded' = [discarded EXCEPT ![cacheKey] = calls[s][cacheKey].allMembers]
  /\ StoreCache(cacheKey[1], cacheKey[2], Null)
  /\ calls' = [calls EXCEPT ![s][cacheKey] = NoCall]
  /\ UNCHANGED <<details, shuffled, selectedCategories, articles, buffer, loading, rendered,
                 shownPageIds, fetchingStatus, cycles, resets, emptyEnded>>

\* Mutant: the catch block marks the key as failed and leaves the cache alone.
ListingError_NoNull(s, cacheKey) ==
  /\ ~MicrotaskPending
  /\ calls[s][cacheKey].active
  /\ failures < MaxFailures
  /\ failures' = failures + 1
  /\ discarded' = [discarded EXCEPT ![cacheKey] = calls[s][cacheKey].allMembers]
  /\ fetchingStatus' = [fetchingStatus EXCEPT ![cacheKey] = "error"]
  /\ calls' = [calls EXCEPT ![s][cacheKey] = NoCall]
  /\ UNCHANGED <<categoryPageIds, categorySubcats>>
  /\ UNCHANGED <<details, shuffled, selectedCategories, articles, buffer, loading, rendered,
                 shownPageIds, cycles, resets, emptyEnded>>

\* Mutant: the catch block caches the members received before the failure.
ListingError_KeepsPartial(s, cacheKey) ==
  /\ ~MicrotaskPending
  /\ calls[s][cacheKey].active
  /\ failures < MaxFailures
  /\ failures' = failures + 1
  /\ discarded' = [discarded EXCEPT ![cacheKey] = calls[s][cacheKey].allMembers]
  /\ fetchingStatus' = [fetchingStatus EXCEPT ![cacheKey] = "error"]
  /\ StoreCache(cacheKey[1], cacheKey[2],
                IF calls[s][cacheKey].allMembers = <<>> THEN Null
                ELSE List(calls[s][cacheKey].allMembers))
  /\ calls' = [calls EXCEPT ![s][cacheKey] = NoCall]
  /\ UNCHANGED <<details, shuffled, selectedCategories, articles, buffer, loading, rendered,
                 shownPageIds, cycles, resets, emptyEnded>>

\* The request fails or the response carries an error payload: the catch block.
ListingError(s, cacheKey) ==
  /\ ~MicrotaskPending
  /\ calls[s][cacheKey].active
  /\ failures < MaxFailures
  /\ failures' = failures + 1
  /\ discarded' = [discarded EXCEPT ![cacheKey] = calls[s][cacheKey].allMembers]
  /\ fetchingStatus' = [fetchingStatus EXCEPT ![cacheKey] = Finally("error")]
  /\ StoreCache(cacheKey[1], cacheKey[2], Null)
  /\ calls' = [calls EXCEPT ![s][cacheKey] = NoCall]
  /\ UNCHANGED <<details, shuffled, selectedCategories, articles, buffer, loading, rendered,
                 shownPageIds, cycles, resets, emptyEnded>>

(***************************************************************************)
(* fetchAndProcessArticles after await Promise.all(initialFetchPromises):  *)
(* aggregate, shuffle, sample, request the pages of the sample.            *)
(***************************************************************************)
RECURSIVE DirectPageIds(_)
DirectPageIds(cats) ==
  IF cats = <<>> THEN {<<>>}
  ELSE LET pages == categoryPageIds[Head(cats)]
           own == IF IsArray(pages) THEN Shuffles(pages.val) ELSE {<<>>}
       IN {a \o b : a \in own, b \in DirectPageIds(Tail(cats))}

RECURSIVE AllSubcatNames(_)
AllSubcatNames(cats) ==
  IF cats = <<>> THEN <<>>
  ELSE LET subcats == categorySubcats[Head(cats)]
       IN (IF IsArray(subcats) THEN subcats.val ELSE <<>>) \o AllSubcatNames(Tail(cats))

\* Mutant: the slice to SUBCAT_SAMPLE_SIZE is missing.
SubcatSamples_NoSlice(allSubcatNames) == Shuffles(allSubcatNames)

SubcatSamples(allSubcatNames) ==
  {Prefix(x, SUBCAT_SAMPLE_SIZE) : x \in Shuffles(allSubcatNames)}

RootsResolved(s) ==
  LET c == cycles[s]
  IN /\ c.pc = "roots"
     /\ Awaiting(s) = {}
     /\ \E directPageIds \in DirectPageIds(c.targetCategories),
           subcatSample \in SubcatSamples(AllSubcatNames(c.targetCategories)) :
          LET r == FetchAll([st |-> fetchingStatus, cs |-> [k \in CacheKeys |-> NoCall]],
                            SubcatFetches(subcatSample))
          IN /\ fetchingStatus' = r.st
             /\ calls' = [calls EXCEPT ![s] = r.cs]
             /\ cycles' = [cycles EXCEPT ![s].pc = "subs",
                                         ![s].directPageIds = directPageIds,
                                         ![s].subcatSample = subcatSample]
     /\ UNCHANGED <<details, shuffled, discarded, selectedCategories, articles, buffer, loading, rendered,
                    categoryPageIds, categorySubcats, shownPageIds, failures, resets,
                    emptyEnded>>

(***************************************************************************)
(* After await Promise.all(subcatPageFetchPromises): build the pool,       *)
(* select the batch, send the detail request.                              *)
(***************************************************************************)
RECURSIVE SubcatPageIds(_)
SubcatPageIds(subcatSample) ==
  IF subcatSample = <<>> THEN <<>>
  ELSE LET pages == categoryPageIds[Head(subcatSample)]
       IN (IF IsArray(pages) THEN pages.val ELSE <<>>) \o SubcatPageIds(Tail(subcatSample))

\* Mutant: the pool is the plain concatenation, without new Set.
AllAvailableIds_NoSet(c) == c.directPageIds \o SubcatPageIds(c.subcatSample)

AllAvailableIds(c) == Unique(c.directPageIds \o SubcatPageIds(c.subcatSample))

\* Mutant: the filter on the shown set is missing.
Unseen_NoFilter(allAvailableIds, shown) == allAvailableIds

Unseen(allAvailableIds, shown) == SelectSeq(allAvailableIds, LAMBDA id : id \notin shown)

Exhausted(allAvailableIds, shown) ==
  Len(Unseen(allAvailableIds, shown)) = 0 /\ Len(allAvailableIds) > 0

PotentialIds(allAvailableIds, shown) ==
  IF Exhausted(allAvailableIds, shown) THEN allAvailableIds
  ELSE Unseen(allAvailableIds, shown)

\* Mutant: exhaustion does not clear the shown set.
ShownAfterSelection_NoClear(allAvailableIds, shown) == shown

ShownAfterSelection(allAvailableIds, shown) ==
  IF Exhausted(allAvailableIds, shown) THEN {} ELSE shown

\* Mutant: the slice to BATCH_SIZE is missing.
Batches_NoSlice(potentialIds) == Shuffles(potentialIds)

Batches(potentialIds) == {Prefix(x, BATCH_SIZE) : x \in Shuffles(potentialIds)}

\* The batch in ascending order.  After the slice the code reads only the length
\* and the elements of idsToFetch (pageIds.join into one request whose response
\* is keyed by page id, Set.add), so the cycle keeps it up to order.
RECURSIVE Sorted(_)
Sorted(seq) ==
  IF seq = <<>> THEN <<>>
  ELSE LET m == CHOOSE i \in 1..Len(seq) : \A j \in 1..Len(seq) : seq[i] <= seq[j]
       IN <<seq[m]>> \o Sorted(SubSeq(seq, 1, m - 1) \o SubSeq(seq, m + 1, Len(seq)))

SubcatsResolved(s) ==
  LET c == cycles[s]
      allAvailableIds == AllAvailableIds(c)
  IN /\ c.pc = "subs"
     /\ Awaiting(s) = {}
     /\ IF Len(allAvailableIds) = 0
          THEN /\ loading' = FALSE
               /\ cycles' = [cycles EXCEPT ![s] = NoCycle]
               /\ emptyEnded' = TRUE
               /\ UNCHANGED <<shownPageIds, resets>>
          ELSE \E idsToFetch \in Batches(PotentialIds(allAvailableIds, shownPageIds)) :
                 /\ shownPageIds' = ShownAfterSelection(allAvailableIds, shownPageIds)
                 /\ resets' = (resets \/ Exhausted(allAvailableIds, shownPageIds))
                 /\ IF Len(idsToFetch) = 0
                      THEN /\ loading' = FALSE
                           /\ cycles' = [cycles EXCEPT ![s] = NoCycle]
                           /\ emptyEnded' = TRUE
                      ELSE /\ cycles' = [cycles EXCEPT ![s].pc = "details",
                                                       ![s].idsToFetch = Sorted(idsToFetch)]
                           /\ UNCHANGED <<loading, emptyEnded>>
     /\ UNCHANGED <<details, shuffled, discarded, selectedCategories, articles, buffer, rendered, categoryPageIds,
                    categorySubcats, fetchingStatus, calls, failures>>

(***************************************************************************)
(* fetchArticleDetails: validation of the detail response, and the rest of *)
(* fetchAndProcessArticles after it returned.                              *)
(***************************************************************************)
\* Mutant: the filter on the thumbnail source is missing.
ValidArticle_NoThumbnail(page) ==
  page.pageid /\ page.title /\ page.extract /\ page.canonicalurl

\* A field is TRUE when the response has it with a truthy value.
ValidArticle(page) ==
  /\ page.pageid /\ page.title /\ page.extract /\ page.canonicalurl
  /\ page.thumbnail.present /\ page.thumbnail.source

FetchedArticles(pageIds) ==
  SelectSeq(Ascending(Range(pageIds)), LAMBDA id : ValidArticle(PageInfo(id)))

\* Mutant: the shown set is replaced by the batch instead of extended.
MarkShown_Replace(shown, idsToFetch) == Range(idsToFetch)

\* idsToFetch.forEach(id => shownPageIds.current.add(id))
MarkShown(shown, idsToFetch) == shown \cup Range(idsToFetch)

\* Mutant: a cycle without records is treated like one with records.
Yields_Always(newArticles) == TRUE

\* if (newArticles.length > 0)
Yields(newArticles) == Len(newArticles) > 0

\* Mutant: the batch is appended to the pending buffer.
Buffered_Append(prev, newArticles) == prev \o newArticles

\* setBuffer(newArticles)
Buffered(prev, newArticles) == newArticles

\* Mutant: setArticles(newArticles), the batch replaces the displayed list.
Finish_Replace(s, newArticles) ==
  LET c == cycles[s]
  IN /\ shownPageIds' = MarkShown(shownPageIds, c.idsToFetch)
     /\ loading' = FALSE
     /\ IF Yields(newArticles) /\ ~c.forBuffer
          THEN /\ articles' = newArticles
               /\ UNCHANGED buffer
               /\ IF Guard(c.loading, c.targetCategories)
                    THEN Launch(s, TRUE, c.loading, c.targetCategories)
                    ELSE /\ cycles' = [cycles EXCEPT ![s] = NoCycle]
                         /\ UNCHANGED <<fetchingStatus, calls>>
          ELSE /\ buffer' = IF Yields(newArticles) THEN Buffered(buffer, newArticles) ELSE buffer
               /\ UNCHANGED articles
               /\ cycles' = [cycles EXCEPT ![s] = NoCycle]
               /\ UNCHANGED <<fetchingStatus, calls>>

Finish(s, newArticles) ==
  LET c == cycles[s]
  IN /\ shownPageIds' = MarkShown(shownPageIds, c.idsToFetch)
     /\ loading' = FALSE
     /\ IF Yields(newArticles) /\ ~c.forBuffer
          THEN /\ articles' = articles \o newArticles
               /\ UNCHANGED buffer
               /\ IF Guard(c.loading, c.targetCategories)
                    THEN Launch(s, TRUE, c.loading, c.targetCategories)
                    ELSE /\ cycles' = [cycles EXCEPT ![s] = NoCycle]
                         /\ UNCHANGED <<fetchingStatus, calls>>
          ELSE /\ buffer' = IF Yields(newArticles) THEN Buffered(buffer, newArticles) ELSE buffer
               /\ UNCHANGED articles
               /\ cycles' = [cycles EXCEPT ![s] = NoCycle]
               /\ UNCHANGED <<fetchingStatus, calls>>

DetailResponse(s) ==
  LET c == cycles[s]
      fetchedArticles == FetchedArticles(c.idsToFetch)
  IN /\ ~MicrotaskPending
     /\ c.pc = "details"
     /\ IF Len(fetchedArticles) = 0
          THEN Finish(s, fetchedArticles)
          ELSE /\ cycles' = [cycles EXCEPT ![s].pc = "preload",
                                           ![s].newArticles = fetchedArticles]
               /\ UNCHANGED <<articles, buffer, loading, shownPageIds, fetchingStatus,
                              calls>>
     /\ UNCHANGED <<details, shuffled, discarded, selectedCategories, rendered, categoryPageIds, categorySubcats,
                    failures, resets, emptyEnded>>

\* Mutant: the failure of the detail request is not caught, the cycle is left
\* where it was and never reaches its finally block.
DetailError_Stalls(s) ==
  /\ ~MicrotaskPending
  /\ cycles[s].pc = "details"
  /\ failures < MaxFailures
  /\ failures' = failures + 1
  /\ cycles' = [cycles EXCEPT ![s].pc = "stalled"]
  /\ UNCHANGED <<articles, buffer, loading, shownPageIds, fetchingStatus, calls>>
  /\ UNCHANGED <<details, shuffled, discarded, selectedCategories, rendered, categoryPageIds, categorySubcats, resets,
                 emptyEnded>>

\* The detail request fails or carries an error payload: catch, return [].
DetailError(s) ==
  /\ ~MicrotaskPending
  /\ cycles[s].pc = "details"
  /\ failures < MaxFailures
  /\ failures' = failures + 1
  /\ Finish(s, <<>>)
  /\ UNCHANGED <<details, shuffled, discarded, selectedCategories, rendered, categoryPageIds, categorySubcats, resets,
                 emptyEnded>>

\* Promise.allSettled of the image preloads: every outcome continues alike.
PreloadSettled(s) ==
  /\ ~MicrotaskPending
  /\ cycles[s].pc = "preload"
  /\ Finish(s, cycles[s].newArticles)
  /\ UNCHANGED <<details, shuffled, discarded, selectedCategories, rendered, categoryPageIds, categorySubcats,
                 failures, resets, emptyEnded>>

Next ==
  \/ SelectCategories
  \/ Render
  \/ handleObserver
  \/ \E s \in Slots, cacheKey \in CacheKeys : ListingResponse(s, cacheKey)
  \/ \E s \in Slots, cacheKey \in CacheKeys : ListingError(s, cacheKey)
  \/ \E s \in Slots : RootsResolved(s)
  \/ \E s \in Slots : SubcatsResolved(s)
  \/ \E s \in Slots : DetailResponse(s)
  \/ \E s \in Slots : DetailError(s)
  \/ \E s \in Slots : PreloadSettled(s)

Spec == Init /\ [][Next]_vars

(***************************************************************************)
(* The same program after the user has confirmed the selection W, a root   *)
(* with more subcategories than one sample takes.                          *)
(***************************************************************************)
InitWide ==
  /\ selectedCategories = <<"W">>
  /\ articles = <<>>
  /\ buffer = <<>>
  /\ loading = FALSE
  /\ rendered = [targetCategories |-> <<>>, articlesLen |-> 0, buffer |-> <<>>,
                 loading |-> FALSE]
  /\ categoryPageIds = [c \in Categories |-> Undefined]
  /\ categorySubcats = [c \in Categories |-> Undefined]
  /\ shownPageIds = {}
  /\ fetchingStatus = [k \in CacheKeys |-> "none"]
  /\ cycles = [s \in Slots |-> NoCycle]
  /\ calls = [s \in Slots |-> [k \in CacheKeys |-> NoCall]]
  /\ failures = 0
  /\ resets = FALSE
  /\ emptyEnded = FALSE
  /\ details = NoDetails
  /\ discarded = [k \in CacheKeys |-> <<>>]
  /\ shuffled = NoShuffle

NextWide ==
  \/ Render
  \/ handleObserver
  \/ \E s \in Slots, cacheKey \in CacheKeys : ListingResponse(s, cacheKey)
  \/ \E s \in Slots, cacheKey \in CacheKeys : ListingError(s, cacheKey)
  \/ \E s \in Slots : RootsResolved(s)
  \/ \E s \in Slots : SubcatsResolved(s)
  \/ \E s \in Slots : DetailResponse(s)
  \/ \E s \in Slots : DetailError(s)
  \/ \E s \in Slots : PreloadSettled(s)

WideSpec == InitWide /\ [][NextWide]_vars

(***************************************************************************)
(* The same program under the scheduling the platform guarantees: React    *)
(* commits a pending render, a continuation whose promises are settled     *)
(* runs, and every remote call and image preload is answered in the end    *)
(* (with data or with an error).  The consumer's actions are not forced.   *)
(* Weak fairness of SubcatsResolved is written out, with its enabling      *)
(* condition as a state predicate.                                         *)
(***************************************************************************)
SubcatsReady(s) == cycles[s].pc = "subs" /\ Awaiting(s) = {}

Fairness ==
  /\ WF_vars(Render)
  /\ \A s \in Slots :
       /\ WF_vars(RootsResolved(s))
       /\ ([]<>~SubcatsReady(s) \/ []<><<SubcatsResolved(s)>>_vars)
       /\ WF_vars(DetailResponse(s) \/ DetailError(s))
       /\ WF_vars(PreloadSettled(s))
       /\ \A cacheKey \in CacheKeys :
            WF_vars(ListingResponse(s, cacheKey) \/ ListingError(s, cacheKey))

FairSpec == Spec /\ Fairness

(***************************************************************************)
(* fetchArticleDetails on its own: one invocation with any list of page    *)
(* ids and any detail response, every field of every page present or not.  *)
(***************************************************************************)
DetailIds == {1, 2}

DetailInputs == {<<>>, <<1>>, <<2>>, <<1, 2>>, <<2, 1>>}

Thumbnails ==
  {[present |-> FALSE, source |-> FALSE], [present |-> TRUE, source |-> FALSE],
   [present |-> TRUE, source |-> TRUE]}

\* The entries data.query.pages can hold under key id.
PageRecords(id) ==
  [key : {id}, pageid : BOOLEAN, title : BOOLEAN, extract : BOOLEAN,
   canonicalurl : BOOLEAN, thumbnail : Thumbnails]

\* Object.values(data.query.pages): one entry per requested id, ascending keys.
Responses(pageIds) ==
  LET keys == Ascending(Range(pageIds))
  IN {pages \in [1..Len(keys) -> UNION {PageRecords(id) : id \in DetailIds}] :
        \A i \in 1..Len(keys) : pages[i].key = keys[i]}

\* .map(...).filter(...): the records of the valid pages, by page id.
Validated(pages) ==
  LET valid == SelectSeq(pages, ValidArticle)
  IN [i \in 1..Len(valid) |-> valid[i].key]

\* Mutant: Promise.all instead of Promise.allSettled, a failed preload is thrown
\* into the catch block.
Preloaded_All(fetchedArticles, rejected) == IF rejected THEN <<>> ELSE fetchedArticles

\* await Promise.allSettled(...); return fetchedArticles
Preloaded(fetchedArticles, rejected) == fetchedArticles

mainVars ==
  <<selectedCategories, articles, buffer, loading, rendered, categoryPageIds,
    categorySubcats, shownPageIds, fetchingStatus, cycles, calls, failures, resets,
    emptyEnded, discarded>>

DetailsCall ==
  /\ details.pc = "idle"
  /\ \E pageIds \in DetailInputs :
       details' = IF Len(pageIds) = 0
                    THEN [details EXCEPT !.pc = "returned", !.pageIds = pageIds]
                    ELSE [details EXCEPT !.pc = "fetching", !.pageIds = pageIds,
                                         !.requests = details.requests + 1]
  /\ UNCHANGED <<mainVars, shuffled>>

DetailsResponse ==
  /\ details.pc = "fetching"
  /\ \E pages \in Responses(details.pageIds) :
       details' = [details EXCEPT !.pc = "preloading", !.pages = pages,
                                  !.result = Validated(pages)]
  /\ UNCHANGED <<mainVars, shuffled>>

\* fetch rejects, or the response carries data.error: the catch block.
DetailsError ==
  /\ details.pc = "fetching"
  /\ details' = [details EXCEPT !.pc = "returned", !.failed = TRUE, !.result = <<>>]
  /\ UNCHANGED <<mainVars, shuffled>>

DetailsPreloaded ==
  /\ details.pc = "preloading"
  /\ \E rejected \in BOOLEAN :
       /\ rejected => Len(details.result) > 0
       /\ details' = [details EXCEPT !.pc = "returned", !.rejected = rejected,
                                     !.result = Preloaded(details.result, rejected)]
  /\ UNCHANGED <<mainVars, shuffled>>

NextDetails ==
  \/ DetailsCall
  \/ DetailsResponse
  \/ DetailsError
  \/ DetailsPreloaded

SpecDetails == Init /\ [][NextDetails]_vars

(***************************************************************************)
(* shuffleArray on its own: the caller passes any array of at most         *)
(* MaxShuffleLen elements, Math.random yields any sequence of draws.       *)
(***************************************************************************)
ShuffleInputs == UNION {[1..n -> 1..MaxShuffleLen] : n \in 0..MaxShuffleLen}

ShuffleCall ==
  /\ shuffled.pc = "idle"
  /\ \E array \in ShuffleInputs :
       \E draws \in {x \in Draws(Len(array)) : DrawsOk(Len(array), x)} :
         shuffled' = [pc |-> "returned", array |-> array, draws |-> draws,
                      result |-> shuffleArray(array, draws)]
  /\ UNCHANGED <<mainVars, details>>

\* The caller takes the result.
ShuffleTaken ==
  /\ shuffled.pc = "returned"
  /\ shuffled' = NoShuffle
  /\ UNCHANGED <<mainVars, details>>

NextShuffle ==
  \/ ShuffleCall
  \/ ShuffleTaken

SpecShuffle == Init /\ [][NextShuffle]_vars

(***************************************************************************)
(* Vocabulary of the properties.                                           *)
(***************************************************************************)
\* The pool of the cycle in slot s, as a set: the direct ids it aggregated and
\* the cached page lists of its sampled subcategories.
PoolSet(s) ==
  Range(cycles[s].directPageIds) \cup
  UNION {Range(categoryPageIds[sub].val) :
           sub \in {x \in Range(cycles[s].subcatSample) : IsArray(categoryPageIds[x])}}

\* The step is the selection step of the cycle in slot s.
SelectionStep(s) == cycles[s].pc = "subs" /\ cycles'[s].pc # "subs"

\* The step is the failure of the detail fetch of the cycle in slot s.
DetailFailureStep(s) ==
  cycles[s].pc = "details" /\ cycles'[s].pc # "details" /\ failures' = failures + 1

NoRepeat(seq) == \A i, j \in 1..Len(seq) : seq[i] = seq[j] => i = j

\* C1: at most one production cycle is in flight at any time.
C1_SingleCycleInFlight == Cardinality(InFlight) <= 1

\* C2: a failed detail fetch adds none of the ids of its batch to the shown set.
C2_FailedBatchNotShown ==
  [][\A s \in Slots :
       DetailFailureStep(s) =>
         (shownPageIds' \cap Range(cycles[s].idsToFetch)) \subseteq shownPageIds]_vars

\* C3: while no exhaustion reset has happened, no page id occurs twice among the
\* records of the displayed list and the buffer taken together.
C3_NoRepeatBeforeReset == ~resets => NoRepeat(articles \o buffer)

\* C4: after a cycle ended on an empty pool or an empty batch, the initial-fetch
\* effect starts no cycle as long as the consumer has not acted.
C4_NoAutomaticRestart ==
  [][emptyEnded =>
       ~(\E s \in Slots : /\ cycles[s].pc = "none"
                          /\ cycles'[s].pc = "roots"
                          /\ rendered' # rendered)]_vars

\* C5: once a (category, kind) key is done, it stays done with the same cached
\* list, and no step issues a remote listing request for it.
C5_DoneKeyNeverRefetched ==
  [][\A k \in CacheKeys :
       fetchingStatus[k] = "done" =>
         /\ fetchingStatus'[k] = "done"
         /\ CacheOf(k[1], k[2])' = CacheOf(k[1], k[2])
         /\ \A s \in Slots : ~calls'[s][k].active]_vars

\* A buffer cycle has resolved both keys of root A again, from the cache alone.
C5_Witness ==
  \E s \in Slots :
    /\ cycles[s].pc = "roots" /\ cycles[s].forBuffer
    /\ cycles[s].targetCategories = <<"A">>
    /\ fetchingStatus[<<"A", "page">>] = "done"
    /\ fetchingStatus[<<"A", "subcat">>] = "done"
    /\ Awaiting(s) = {}

C7_BatchUnseenUnlessExhausted ==
  [][\A s \in Slots :
       (SelectionStep(s) /\ cycles'[s].pc = "details") =>
         \/ Range(cycles'[s].idsToFetch) \cap shownPageIds = {}
         \/ PoolSet(s) \subseteq shownPageIds]_vars

\* A batch was selected from a pool that is partly shown, and avoids the shown ids.
C7_Witness ==
  \E s \in Slots :
    /\ cycles[s].pc = "details"
    /\ ~resets
    /\ PoolSet(s) \cap shownPageIds # {}
    /\ Range(cycles[s].idsToFetch) \cap shownPageIds = {}

\* C8: selection from a non-empty pool whose ids are all shown clears the shown
\* set and draws min(BATCH_SIZE, N) distinct ids from the full pool.
C8_ExhaustionReset ==
  [][\A s \in Slots :
       (SelectionStep(s) /\ PoolSet(s) # {} /\ PoolSet(s) \subseteq shownPageIds) =>
         /\ shownPageIds' = {}
         /\ cycles'[s].pc = "details"
         /\ NoRepeat(cycles'[s].idsToFetch)
         /\ Range(cycles'[s].idsToFetch) \subseteq PoolSet(s)
         /\ Len(cycles'[s].idsToFetch) = Min(BATCH_SIZE, Cardinality(PoolSet(s)))]_vars

\* Right after an exhaustion reset: the shown set is empty and a full batch of
\* formerly shown ids is on its way to the detail endpoint.
C8_Witness ==
  \E s \in Slots :
    /\ resets
    /\ shownPageIds = {}
    /\ cycles[s].pc = "details"
    /\ Len(cycles[s].idsToFetch) = BATCH_SIZE

\* C9: the shown set never loses an id in a step, except in a selection step
\* whose (non-empty) pool has no unseen member.
C9_ShownGrowsUntilExhaustion ==
  [][\/ shownPageIds \subseteq shownPageIds'
     \/ \E s \in Slots :
          SelectionStep(s) /\ PoolSet(s) # {} /\ PoolSet(s) \subseteq shownPageIds]_vars

\* The shown set was cleared by exhaustion and has grown again since.
C9_Witness == resets /\ Cardinality(shownPageIds) >= 2

\* The candidates of the selection of the cycle in slot s.
Candidates(s) ==
  IF PoolSet(s) \ shownPageIds = {} THEN PoolSet(s) ELSE PoolSet(s) \ shownPageIds

\* C10: the batch selected from a non-empty pool has exactly
\* min(BATCH_SIZE, number of candidates) pairwise distinct ids of the pool; it
\* is never longer than BATCH_SIZE and never empty.
C10_BatchSize ==
  [][\A s \in Slots :
       (SelectionStep(s) /\ PoolSet(s) # {}) =>
         /\ cycles'[s].pc = "details"
         /\ NoRepeat(cycles'[s].idsToFetch)
         /\ Range(cycles'[s].idsToFetch) \subseteq PoolSet(s)
         /\ Len(cycles'[s].idsToFetch) = Min(BATCH_SIZE, Cardinality(Candidates(s)))
         /\ Len(cycles'[s].idsToFetch) <= BATCH_SIZE
         /\ Len(cycles'[s].idsToFetch) > 0]_vars

\* A batch cut to BATCH_SIZE: more candidates were available than it holds.
C10_Witness ==
  \E s \in Slots :
    /\ cycles[s].pc = "details"
    /\ ~resets
    /\ Len(cycles[s].idsToFetch) = BATCH_SIZE
    /\ Cardinality(PoolSet(s) \ shownPageIds) > BATCH_SIZE

\* The step is the aggregation step of the cycle in slot s (after the root fetches).
AggregationStep(s) == cycles[s].pc = "roots" /\ cycles'[s].pc = "subs"

\* The ids of the page lists the cache holds for the categories cats.
ResolvedIds(cats) ==
  UNION {Range(categoryPageIds[cat].val) :
           cat \in {x \in Range(cats) : IsArray(categoryPageIds[x])}}

\* C11: the direct ids a cycle aggregates are the union of the resolved page lists
\* of its root categories, and the pool it builds holds every id once and is, as
\* a set, the union of those direct ids and of the resolved page lists of the
\* sampled subcategories.
C11_PoolIsUnion ==
  [][\A s \in Slots :
       /\ AggregationStep(s) =>
            Range(cycles'[s].directPageIds) = ResolvedIds(cycles[s].targetCategories)
       /\ SelectionStep(s) =>
            /\ NoRepeat(AllAvailableIds(cycles[s]))
            /\ Range(AllAvailableIds(cycles[s])) =
                 Range(cycles[s].directPageIds) \cup ResolvedIds(cycles[s].subcatSample)]_vars

\* A batch was selected from a pool to which root A and the sampled subcategory S
\* both contributed page 2.
C11_Witness ==
  \E s \in Slots :
    /\ cycles[s].pc = "details"
    /\ 2 \in Range(cycles[s].directPageIds)
    /\ cycles[s].subcatSample = <<"S">>
    /\ IsArray(categoryPageIds["S"])
    /\ 2 \in Range(categoryPageIds["S"].val)

\* The step is a call of getMoreArticles (advance) by the consumer: a cycle
\* starts in a free slot and no render is committed.
AdvanceStep ==
  /\ rendered' = rendered
  /\ \E s \in Slots : cycles[s].pc = "none" /\ cycles'[s].pc # "none"

\* C12: getMoreArticles called with a non-empty buffer appends the buffered
\* records, in their order and once each, to the end of the displayed list,
\* which keeps its records in place, and leaves the buffer empty.
C12_AdvanceMovesBuffer ==
  [][(AdvanceStep /\ Len(buffer) > 0) =>
       /\ buffer' = <<>>
       /\ Len(articles') = Len(articles) + Len(buffer)
       /\ SubSeq(articles', 1, Len(articles)) = articles
       /\ SubSeq(articles', Len(articles) + 1, Len(articles')) = buffer]_vars

\* Right after an advance: the buffer the last render saw is displayed and the
\* buffer is empty.
C12_Witness ==
  /\ Len(rendered.buffer) > 0
  /\ buffer = <<>>
  /\ Len(articles) = rendered.articlesLen + Len(rendered.buffer)
  /\ SubSeq(articles, rendered.articlesLen + 1, Len(articles)) = rendered.buffer

\* The buffer-producing cycles in flight.
BufferCycles == {s \in Slots : cycles[s].pc # "none" /\ cycles[s].forBuffer}

\* C13: the buffer holds at most BATCH_SIZE records, at most one
\* buffer-producing cycle is in flight, and none is while the buffer is not empty.
C13_SingleBufferAhead ==
  /\ Len(buffer) <= BATCH_SIZE
  /\ Cardinality(BufferCycles) <= 1
  /\ Len(buffer) > 0 => BufferCycles = {}

\* The ids of the records a step places in the displayed list or in the buffer.
DeliveredByStep ==
  Range(SubSeq(articles', Len(articles) + 1, Len(articles'))) \cup
  (IF \E s \in Slots : /\ cycles[s].forBuffer
                        /\ cycles[s].pc \in {"details", "preload"}
                        /\ cycles'[s].pc = "none"
     THEN Range(buffer') ELSE {})

\* C14: every id a step adds to the shown set is the id of a record that step
\* places in the displayed list or in the buffer; the ids of pages dropped by
\* validation, or of a batch that produced no record, are not added.
C14_ShownIsDelivered ==
  [][(shownPageIds' \ shownPageIds) \subseteq DeliveredByStep]_vars

\* The step ends the cycle in slot s without records: on an empty pool or batch,
\* or on a detail fetch that failed or returned no valid record.
ZeroYieldStep(s) ==
  \/ cycles[s].pc = "subs" /\ cycles'[s].pc \notin {"subs", "details"}
  \/ cycles[s].pc = "details" /\ cycles'[s].pc \notin {"details", "preload"}

\* The step delivers the records of the cycle in slot s.
DeliveryStep(s) ==
  cycles[s].pc = "preload" /\ Len(cycles[s].newArticles) > 0 /\ cycles'[s].pc # "preload"

\* C15: the step that ends a cycle without records changes neither the displayed
\* list nor the buffer and starts no cycle; and the displayed list and the buffer
\* change only when the consumer advances or a cycle delivers records.
C15_ZeroYieldFrame ==
  [][/\ \A s \in Slots :
          ZeroYieldStep(s) =>
            /\ articles' = articles /\ buffer' = buffer
            /\ cycles'[s].pc = "none"
            /\ \A t \in Slots : cycles[t].pc = "none" => cycles'[t].pc = "none"
     /\ (articles' # articles \/ buffer' # buffer) =>
          (AdvanceStep \/ \E s \in Slots : DeliveryStep(s))]_vars

\* A cycle marked its batch shown and ended without records: nothing is
\* displayed or buffered and no cycle is in flight.
C15_Witness ==
  /\ shownPageIds # {}
  /\ articles = <<>> /\ buffer = <<>>
  /\ InFlight = {}
  /\ ~loading

\* The step is the failure of the resolution of key k called by the cycle in slot s.
ListingFailureStep(s, k) ==
  calls[s][k].active /\ ~calls'[s][k].active /\ failures' = failures + 1

\* The keys the cycle in slot s reads: its roots, both kinds, and the pages of its sample.
KeysOf(s) ==
  {k \in CacheKeys : \/ k[1] \in Range(cycles[s].targetCategories)
                     \/ k[1] \in Range(cycles[s].subcatSample) /\ k[2] = "page"}

\* C16: a failed resolution leaves its cycle running as it was and touches no
\* other key; the key holds no list afterwards; and a cycle one of whose keys
\* holds no list still selects its batch from the lists of all its other keys.
C16_FailureConfinedToKey ==
  [][\A s \in Slots :
       /\ \A k \in CacheKeys :
            ListingFailureStep(s, k) =>
              /\ cycles' = cycles
              /\ ~IsArray(CacheOf(k[1], k[2])')
              /\ \A j \in CacheKeys \ {k} :
                   /\ fetchingStatus'[j] = fetchingStatus[j]
                   /\ CacheOf(j[1], j[2])' = CacheOf(j[1], j[2])
                   /\ calls'[s][j] = calls[s][j]
              /\ articles' = articles /\ buffer' = buffer /\ loading' = loading
       /\ (SelectionStep(s) /\ \E k \in KeysOf(s) : CacheOf(k[1], k[2]) = Null) =>
            /\ Range(AllAvailableIds(cycles[s])) = PoolSet(s)
            /\ PoolSet(s) # {} =>
                 /\ cycles'[s].pc = "details"
                 /\ Range(cycles'[s].idsToFetch) \subseteq PoolSet(s)]_vars

\* The page list of root E failed to resolve, and the cycle selected a batch
\* with the pages of the other root, A.
C16_Witness ==
  \E s \in Slots :
    /\ cycles[s].pc = "details"
    /\ cycles[s].targetCategories = <<"E", "A">>
    /\ categoryPageIds["E"] = Null
    /\ Range(cycles[s].directPageIds) = {1, 2}
    /\ cycles[s].idsToFetch # <<>>

\* In this step the cycle in slot s calls fetchCategoryMembers for key k: for
\* its roots when it starts, for the pages of its sample when it has aggregated.
ResolveRequest(s, k) ==
  \/ /\ cycles[s].pc # "roots" /\ cycles'[s].pc = "roots"
     /\ k[1] \in Range(cycles'[s].targetCategories)
  \/ /\ AggregationStep(s)
     /\ k[2] = "page" /\ k[1] \in Range(cycles'[s].subcatSample)

\* C17: a failed resolution leaves null in the cache and status error; a key in
\* status error holds null; a resolve request for a key in status error sends a
\* listing request again; and a resolution that ends done has cached the full
\* member list of the category.
C17_ErrorIsCacheMiss ==
  [][\A k \in CacheKeys :
       /\ \A s \in Slots :
            /\ ListingFailureStep(s, k) =>
                 CacheOf(k[1], k[2])' = Null /\ fetchingStatus'[k] = "error"
            /\ (ResolveRequest(s, k) /\ fetchingStatus[k] = "error") =>
                 /\ calls'[s][k] = [active |-> TRUE, allMembers |-> <<>>, cmcontinue |-> 0]
                 /\ fetchingStatus'[k] = "pending"
       /\ fetchingStatus[k] = "error" => CacheOf(k[1], k[2]) = Null
       /\ (fetchingStatus[k] # "done" /\ fetchingStatus'[k] = "done") =>
            CacheOf(k[1], k[2])' = List(RemoteMembers(k[1], k[2]))]_vars

\* The retry of the page list of A is under way: the cache still holds the null
\* of the failure, the key is pending and the first listing page has arrived.
C17_Witness ==
  \E s \in Slots :
    /\ categoryPageIds["A"] = Null
    /\ fetchingStatus[<<"A", "page">>] = "pending"
    /\ calls[s][<<"A", "page">>].active
    /\ calls[s][<<"A", "page">>].allMembers = <<1>>

\* A page of the response has every field validation asks for.
WellFormed(page) ==
  /\ page.pageid /\ page.title /\ page.extract /\ page.canonicalurl
  /\ page.thumbnail.present /\ page.thumbnail.source

\* C18: once fetchArticleDetails has validated a response, its records are, in
\* the order of the response and once each, those of the pages that have page
\* id, title, extract, canonical URL and a thumbnail with a source.
C18_ValidationFilter ==
  (details.pc \in {"preloading", "returned"} /\ ~details.failed) =>
    /\ NoRepeat(details.result)
    /\ \A i \in 1..Len(details.pages) :
         details.pages[i].key \in Range(details.result) <=> WellFormed(details.pages[i])
    /\ Range(details.result) \subseteq {details.pages[i].key : i \in 1..Len(details.pages)}
    /\ \A i, j \in 1..Len(details.result) : i < j => details.result[i] < details.result[j]

\* A response with one well-formed page and one page that lacks only its
\* thumbnail has yielded exactly one record.
C18_Witness ==
  /\ details.pc = "returned"
  /\ Len(details.pages) = 2
  /\ WellFormed(details.pages[1])
  /\ ~details.pages[2].thumbnail.present
  /\ details.pages[2].pageid /\ details.pages[2].title
  /\ details.pages[2].extract /\ details.pages[2].canonicalurl
  /\ details.result = <<1>>

\* C19: fetchArticleDetails always returns a list: the empty list, without a
\* remote call, for an empty input; the empty list after a failed request or an
\* error payload; and the validated records, all of them, whether or not an
\* image preload failed.
C19_DetailsNeverRaise ==
  /\ details.pc \in {"idle", "fetching", "preloading", "returned"}
  /\ details.pc = "returned" =>
       /\ details.pageIds = <<>> => details.result = <<>> /\ details.requests = 0
       /\ details.failed => details.result = <<>>
       /\ (details.pageIds # <<>> /\ ~details.failed) =>
            details.result = Validated(details.pages)

\* A preload failed and the two records of the response were returned all the same.
C19_Witness ==
  /\ details.pc = "returned"
  /\ details.rejected
  /\ details.result = <<1, 2>>

\* C20: the step in which a foreground cycle delivers its records appends
\* exactly them to the displayed list, leaves the buffer as it is, and starts
\* one buffer-producing cycle, in the same task and no other.
C20_ForegroundThenBuffer ==
  [][\A s \in Slots :
       (DeliveryStep(s) /\ ~cycles[s].forBuffer) =>
         /\ articles' = articles \o cycles[s].newArticles
         /\ buffer' = buffer
         /\ cycles'[s].pc = "roots" /\ cycles'[s].forBuffer
         /\ cycles'[s].targetCategories = cycles[s].targetCategories
         /\ \A t \in Slots \ {s} : cycles'[t] = cycles[t]]_vars

\* The first foreground cycle has delivered, before any render or consumer
\* action: its records are displayed and a buffer cycle awaits its root fetches.
C20_Witness ==
  /\ rendered.articlesLen = 0
  /\ Len(articles) > 0
  /\ buffer = <<>>
  /\ \E s \in Slots : cycles[s].pc = "roots" /\ cycles[s].forBuffer

\* C21: the step in which a buffer cycle delivers its records sets the buffer to
\* exactly them, leaves the displayed list as it is, ends the cycle, starts or
\* changes no other cycle and clears the in-flight flag.
C21_BufferCycleStores ==
  [][\A s \in Slots :
       (DeliveryStep(s) /\ cycles[s].forBuffer) =>
         /\ buffer' = cycles[s].newArticles
         /\ articles' = articles
         /\ cycles'[s].pc = "none"
         /\ \A t \in Slots \ {s} : cycles'[t] = cycles[t]
         /\ calls' = calls
         /\ loading' = FALSE]_vars

\* A buffer cycle has delivered: a batch is pending in the buffer behind the
\* displayed records, no cycle is in flight and the flag is clear.
C21_Witness ==
  /\ Len(buffer) > 0
  /\ Len(articles) > 0
  /\ InFlight = {}
  /\ ~loading

\* The cycles a step starts in a slot that was free.
Started == {s \in Slots : cycles[s].pc = "none" /\ cycles'[s].pc # "none"}

\* C22: a step that empties the buffer (the swap of an advance) starts exactly
\* one cycle, a buffer-producing one; an advance with an empty buffer starts
\* exactly one cycle, a foreground one, and touches neither list; after either
\* the in-flight flag is set and a cycle is in flight.
C22_AdvanceStartsCycle ==
  [][/\ (Len(buffer) > 0 /\ buffer' = <<>>) =>
          /\ Cardinality(Started) = 1
          /\ \A s \in Started : cycles'[s].pc = "roots" /\ cycles'[s].forBuffer
          /\ loading'
     /\ (AdvanceStep /\ Len(buffer) = 0) =>
          /\ Cardinality(Started) = 1
          /\ \A s \in Started : cycles'[s].pc = "roots" /\ ~cycles'[s].forBuffer
          /\ articles' = articles /\ buffer' = buffer
          /\ loading']_vars

\* An advance with an empty buffer has started a foreground cycle: records are
\* displayed, the render is up to date with them, and the cycle awaits its roots.
C22_Witness ==
  /\ Len(articles) > 0
  /\ rendered.articlesLen = Len(articles)
  /\ buffer = <<>> /\ rendered.buffer = <<>>
  /\ \E s \in Slots : cycles[s].pc = "roots" /\ ~cycles[s].forBuffer

RootKeys(s) == {k \in CacheKeys : k[1] \in Range(cycles[s].targetCategories)}

\* The order of the steps of one cycle.
StepOrder ==
  {<<"none", "roots">>, <<"roots", "subs">>, <<"subs", "details">>, <<"subs", "none">>,
   <<"details", "preload">>, <<"details", "none">>, <<"details", "roots">>,
   <<"preload", "none">>, <<"preload", "roots">>}

\* The step in which the detail fetch of the cycle in slot s returns.
ReturnStep(s) ==
  cycles[s].pc \in {"details", "preload"} /\ cycles'[s].pc \notin {"details", "preload"}

\* C24: a cycle moves through its steps in order; it samples and requests the
\* pages of subcategories only when none of its root keys is pending; it builds
\* its pool and selects only when none of the keys it reads is pending; and the
\* shown set, the displayed list and the buffer are changed by a cycle only in
\* the step in which its detail fetch returns.
C24_StepsInOrder ==
  [][/\ \A s \in Slots :
          /\ cycles'[s].pc # cycles[s].pc => <<cycles[s].pc, cycles'[s].pc>> \in StepOrder
          /\ AggregationStep(s) => \A k \in RootKeys(s) : fetchingStatus[k] # "pending"
          /\ SelectionStep(s) => \A k \in KeysOf(s) : fetchingStatus[k] # "pending"
     /\ (\/ ~(shownPageIds' \subseteq shownPageIds)
         \/ (buffer' # buffer \/ articles' # articles) /\ ~AdvanceStep) =>
          \E s \in Slots : ReturnStep(s)]_vars

\* C25: a resolution awaiting the endpoint has accumulated the members of the
\* pages before its token; the response to its request either carries a token,
\* and the next request passes that token with the members appended, or carries
\* none, and the resolution ends done with the members of all pages, in page
\* order, in the cache; a failure ends it at once with null and status error.
C25_Pagination ==
  [][\A s \in Slots, k \in CacheKeys :
       calls[s][k].active =>
         LET call == calls[s][k]
             page == ListingPage(k[1], k[2], call.cmcontinue)
             allMembers == call.allMembers \o page.members
         IN /\ call.allMembers = SubSeq(RemoteMembers(k[1], k[2]), 1, call.cmcontinue)
            /\ \/ calls'[s][k] = call
               \/ /\ page.continue # 0
                  /\ calls'[s][k] = [active |-> TRUE, allMembers |-> allMembers,
                                      cmcontinue |-> page.continue]
                  /\ fetchingStatus'[k] = "pending"
                  /\ CacheOf(k[1], k[2])' = CacheOf(k[1], k[2])
               \/ /\ page.continue = 0
                  /\ ~calls'[s][k].active
                  /\ fetchingStatus'[k] = "done"
                  /\ CacheOf(k[1], k[2])' = List(allMembers)
                  /\ allMembers = RemoteMembers(k[1], k[2])
               \/ /\ failures' = failures + 1
                  /\ ~calls'[s][k].active
                  /\ fetchingStatus'[k] = "error"
                  /\ CacheOf(k[1], k[2])' = Null]_vars

\* The page list of A, longer than one listing page, was resolved without a
\* failure: both pages are cached in order.
C25_Witness ==
  /\ Len(RemotePages("A")) > CmLimit
  /\ failures = 0
  /\ fetchingStatus[<<"A", "page">>] = "done"
  /\ categoryPageIds["A"] = List(<<1, 2>>)

\* C26: a key is pending only while the resolve call that marked it awaits the
\* endpoint; when that call returns the key is done or error; and every pending
\* key leaves pending in the end (again and again the key is not pending).
C26_PendingEnds ==
  /\ [](\A k \in CacheKeys :
          fetchingStatus[k] = "pending" => \E s \in Slots : calls[s][k].active)
  /\ [][\A s \in Slots, k \in CacheKeys :
          (calls[s][k].active /\ ~calls'[s][k].active) =>
            fetchingStatus'[k] \in {"done", "error"}]_vars
  /\ \A k \in CacheKeys : []<>(fetchingStatus[k] # "pending")

\* A resolution has returned through its catch block: the key is in status
\* error and no call for it is outstanding.
C26_Witness ==
  \E k \in CacheKeys :
    /\ fetchingStatus[k] = "error"
    /\ \A s \in Slots : ~calls[s][k].active

\* The resolve calls a step sends to the endpoint for the cycle in slot s.
NewCalls(s) == {k \in CacheKeys : ~calls[s][k].active /\ calls'[s][k].active}

\* The step starts a cycle in slot s.
StartStep(s) == cycles[s].pc # "roots" /\ cycles'[s].pc = "roots"

\* The subcategory names the cache holds for the categories cats.
ResolvedNames(cats) ==
  UNION {Range(categorySubcats[cat].val) :
           cat \in {x \in Range(cats) : IsArray(categorySubcats[x])}}

\* C27: the sample of a cycle has min(SUBCAT_SAMPLE_SIZE, number of aggregated
\* names) names, each resolved as a subcategory of one of its roots; a cycle
\* sends resolve calls only when it starts, for keys of its roots, at most two
\* per root, and when it has sampled, for the pages of sampled names, at most
\* SUBCAT_SAMPLE_SIZE; it never asks for the subcategories of a sampled name.
C27_BoundedFanOut ==
  [][\A s \in Slots :
       /\ AggregationStep(s) =>
            /\ Len(cycles'[s].subcatSample) =
                 Min(SUBCAT_SAMPLE_SIZE, Len(AllSubcatNames(cycles[s].targetCategories)))
            /\ Len(cycles'[s].subcatSample) <= SUBCAT_SAMPLE_SIZE
            /\ Range(cycles'[s].subcatSample) \subseteq
                 ResolvedNames(cycles[s].targetCategories)
            /\ NewCalls(s) \subseteq {<<n, "page">> : n \in Range(cycles'[s].subcatSample)}
            /\ Cardinality(NewCalls(s)) <= SUBCAT_SAMPLE_SIZE
       /\ StartStep(s) =>
            /\ NewCalls(s) \subseteq
                 {k \in CacheKeys : k[1] \in Range(cycles'[s].targetCategories)}
            /\ Cardinality(NewCalls(s)) <= 2 * Len(cycles'[s].targetCategories)
       /\ NewCalls(s) # {} => (StartStep(s) \/ AggregationStep(s))]_vars

\* A cycle for root W has sampled: W has more subcategories than the sample
\* takes, and the sample is full.
C27_Witness ==
  \E s \in Slots :
    /\ cycles[s].pc = "subs"
    /\ cycles[s].targetCategories = <<"W">>
    /\ IsArray(categorySubcats["W"])
    /\ Len(categorySubcats["W"].val) > SUBCAT_SAMPLE_SIZE
    /\ Len(cycles[s].subcatSample) = SUBCAT_SAMPLE_SIZE

\* The invocation in slot s returns: the slot is freed, or taken over by the
\* buffer cycle the invocation started just before it returned.
CycleEnds(s) ==
  /\ cycles[s].pc # "none"
  /\ \/ cycles'[s].pc = "none"
     \/ cycles[s].pc \in {"details", "preload"} /\ cycles'[s].pc = "roots"

\* C28: when every remote call is answered, with data or with an error, every
\* production cycle returns (no slot holds a cycle forever), and the step in
\* which a cycle returns, on whichever path, leaves the loading flag cleared.
C28_CyclesFinish ==
  /\ \A s \in Slots : []<>(cycles[s].pc = "none")
  /\ [][\A s \in Slots : CycleEnds(s) => loading' = FALSE]_vars

\* Cycles have returned, one after a failed remote call and one with records,
\* and nothing is in flight.
C28_Witness ==
  /\ InFlight = {}
  /\ ~loading
  /\ failures > 0
  /\ Len(articles) > 0

\* The cached value of a key, of a key after the step.
Cached(k) == IF k[2] = "page" THEN categoryPageIds[k[1]] ELSE categorySubcats[k[1]]
CachedAfter(k) == IF k[2] = "page" THEN categoryPageIds'[k[1]] ELSE categorySubcats'[k[1]]

\* C29: for every key, the status is done exactly when a member list is
\* cached; a failed key has null cached; a key without status has nothing
\* cached; a pending key has nothing cached or null, and a key that becomes
\* pending has nothing cached on a first attempt and null on a retry.
C29_CacheMatchesStatus ==
  /\ [](\A k \in CacheKeys :
          /\ fetchingStatus[k] = "done" <=> IsArray(Cached(k))
          /\ fetchingStatus[k] = "error" => Cached(k) = Null
          /\ fetchingStatus[k] = "none" => Cached(k) = Undefined
          /\ fetchingStatus[k] = "pending" => Cached(k) \in {Undefined, Null})
  /\ [][\A k \in CacheKeys :
          fetchingStatus[k] # "pending" /\ fetchingStatus'[k] = "pending" =>
            /\ fetchingStatus[k] = "none" => CachedAfter(k) = Undefined
            /\ fetchingStatus[k] = "error" => CachedAfter(k) = Null
            /\ fetchingStatus[k] \in {"none", "error"}]_vars

\* A failed key is being fetched again while another key holds its list.
C29_Witness ==
  \E k, j \in CacheKeys :
    /\ fetchingStatus[k] = "pending" /\ Cached(k) = Null
    /\ fetchingStatus[j] = "done" /\ IsArray(Cached(j))

\* C30: in every step the displayed list before the step is a prefix of the
\* displayed list after it.
C30_AppendOnly ==
  [][/\ Len(articles) <= Len(articles')
     /\ SubSeq(articles', 1, Len(articles)) = articles]_vars

\* The displayed list has grown more than once, the second time after the
\* shown set was reset on exhaustion and a remote call had failed.
C30_Witness ==
  /\ Len(articles) > BATCH_SIZE
  /\ resets
  /\ failures > 0

\* The key k lost the members of the pages it had received to a failure.
LostPartial(k) == discarded[k] # <<>>

\* The page ids cached for the categories of names whose page key lost nothing.
IntactIds(names) ==
  UNION {Range(categoryPageIds[cat].val) :
           cat \in {x \in names : IsArray(categoryPageIds[x]) /\ ~LostPartial(<<x, "page">>)}}

\* The subcategory names cached for the categories cats whose subcat key lost nothing.
IntactNames(cats) ==
  UNION {Range(categorySubcats[cat].val) :
           cat \in {x \in Range(cats) : IsArray(categorySubcats[x]) /\
                                         ~LostPartial(<<x, "subcat">>)}}

\* C31: a resolution that fails after it received at least one page leaves
\* null cached and the status error (pending once it is retried), never the
\* members it had accumulated; and the cycle takes from such a key no direct
\* id, no subcategory name and no id of its pool.
C31_NoPartialResult ==
  /\ [](\A k \in CacheKeys :
          LostPartial(k) => Cached(k) = Null /\ fetchingStatus[k] \in {"error", "pending"})
  /\ [][\A s \in Slots :
          /\ \A k \in CacheKeys :
               (ListingFailureStep(s, k) /\ calls[s][k].allMembers # <<>>) =>
                 /\ CachedAfter(k) = Null
                 /\ fetchingStatus'[k] = "error"
                 /\ cycles'[s] = cycles[s]
          /\ AggregationStep(s) =>
               /\ Range(cycles'[s].directPageIds) \subseteq
                    IntactIds(Range(cycles[s].targetCategories))
               /\ Range(cycles'[s].subcatSample) \subseteq
                    IntactNames(cycles[s].targetCategories)
          /\ SelectionStep(s) =>
               Range(cycles'[s].idsToFetch) \subseteq
                 Range(cycles[s].directPageIds) \cup
                 IntactIds(Range(cycles[s].subcatSample))]_vars

\* The page listing of root A failed on its second page; the cycle went on
\* without a direct id and selected its batch from the sampled subcategory.
C31_Witness ==
  \E s \in Slots :
    /\ cycles[s].pc = "details"
    /\ cycles[s].targetCategories = <<"A">>
    /\ LostPartial(<<"A", "page">>)
    /\ fetchingStatus[<<"A", "page">>] = "error"
    /\ cycles[s].directPageIds = <<>>
    /\ cycles[s].idsToFetch # <<>>

\* The number of occurrences of v in seq.
Count(seq, v) == Cardinality({i \in 1..Len(seq) : seq[i] = v})

\* a has the elements of b with the same multiplicities.
IsPermutationOf(a, b) ==
  /\ Len(a) = Len(b)
  /\ \A v \in Range(a) \cup Range(b) : Count(a, v) = Count(b, v)

\* a has no element more often than b has it.
IsSubBagOf(a, b) == \A v \in Range(a) : Count(a, v) <= Count(b, v)

\* Every rearrangement of array.
Rearrangements(array) ==
  LET n == Len(array)
  IN {[i \in 1..n |-> array[p[i]]] :
        p \in {f \in [1..n -> 1..n] : \A i, j \in 1..n : f[i] = f[j] => i = j}}

\* C32: whatever is drawn, shuffleArray returns its input rearranged (same
\* length, same elements, same multiplicities); every rearrangement of the
\* input is returned for some sequence of draws; and a prefix of a shuffle, as
\* taken for the sample and the batch, has no element the input lacks and none
\* more often than the input.
C32_ShuffleIsPermutation ==
  shuffled.pc = "returned" =>
    /\ IsPermutationOf(shuffled.result, shuffled.array)
    /\ \A perm \in Rearrangements(shuffled.array) :
         \E draws \in Draws(Len(shuffled.array)) :
           /\ DrawsOk(Len(shuffled.array), draws)
           /\ shuffleArray(shuffled.array, draws) = perm
    /\ \A x \in Shuffles(shuffled.array) :
         /\ x \in Rearrangements(shuffled.array)
         /\ \A n \in 0..Len(x) : IsSubBagOf(Prefix(x, n), shuffled.array)

\* An array with a repeated element came back in another order.
C32_Witness ==
  /\ shuffled.pc = "returned"
  /\ shuffled.array = <<1, 1, 2>>
  /\ shuffled.result = <<2, 1, 1>>

====
